---- MODULE Spec2Model ----
(***************************************************************************)
(* protoc-gen-tst: a protoc plugin that renders one TypeScript type alias  *)
(* per protobuf message (src/src/main.rs).                                 *)
(*                                                                         *)
(* Text is modelled as the sequence of pieces the write! calls append to   *)
(* the formatter, in order; Text(pieces) is the String that results.       *)
(***************************************************************************)
EXTENDS Integers, Sequences, FiniteSets, TLC

VARIABLES
    req,              \* the decoded CodeGeneratorRequest
    overflow_checks,  \* build profile: "on" = arithmetic overflow panics (debug),
                      \* "off" = it wraps (release), "any" until an overflow tells
    pc,               \* position of main: "iter", "render", "write", "done", "panicked"
    panic,            \* the panic message, "" while there is none
    file_i,           \* outer iterator of process_req: index of the current file
    msg_i,            \* inner iterator of process_req: index of the current message
    ts_object_type,   \* the TsObjectType built for the current message
    collected,        \* the Vec<CodeGeneratorResponse_File> collect() is building
    stdout,           \* what main has written to stdout
    prev              \* earlier invocations of the program: <<[req, stdout, pc]>>

vars == <<req, overflow_checks, pc, panic, file_i, msg_i, ts_object_type, collected, stdout, prev>>

----------------------------------------------------------------------------
(* Bounds of the model *)

MaxFields == 3      \* fields per message (one-message specifications)
MaxOneofs == 2      \* declared oneof groups per message
MaxFiles == 2       \* files per request
MaxMsgs == 3        \* messages per request, over all its files

----------------------------------------------------------------------------
(* Generic helpers *)

RECURSIVE Concat(_)
Concat(ss) == IF ss = <<>> THEN <<>> ELSE Head(ss) \o Concat(Tail(ss))

RECURSIVE Text(_)
Text(pieces) == IF pieces = <<>> THEN "" ELSE Head(pieces) \o Text(Tail(pieces))

SeqsUpTo(S, n) == UNION {[1..k -> S] : k \in 0..n}

----------------------------------------------------------------------------
(* usize arithmetic.  usize::MAX is beyond the integers TLC holds;       *)
(* the largest one it holds stands for it.  Every other usize of the model *)
(* is a length or an index below it, so the order relations are the same.  *)

UsizeMax == (1073741823 * 2) + 1

\* `x as usize` for an i32 x: a negative x sign-extends to usize::MAX + 1 + x
AsUsize(x) == IF x < 0 THEN UsizeMax + (1 + x) ELSE x

\* `n - 1` on usize without overflow checks: wraps
WrappingSub1(n) == IF n = 0 THEN UsizeMax ELSE n - 1

----------------------------------------------------------------------------
(* enum TsType and its Display *)

Boolean == [kind |-> "Boolean", name |-> ""]
Number == [kind |-> "Number", name |-> ""]
String == [kind |-> "String", name |-> ""]
Never == [kind |-> "Never", name |-> ""]
Object(name) == [kind |-> "Object", name |-> name]

Display_TsType(t) ==
    CASE t.kind = "Boolean" -> "boolean"
      [] t.kind = "Number" -> "number"
      [] t.kind = "String" -> "string"
      [] t.kind = "Never" -> "never"
      [] t.kind = "Object" -> t.name

NumberKinds ==
    {"TYPE_DOUBLE", "TYPE_FLOAT", "TYPE_INT64", "TYPE_UINT64", "TYPE_INT32",
     "TYPE_FIXED64", "TYPE_FIXED32", "TYPE_UINT32", "TYPE_SFIXED32",
     "TYPE_SFIXED64", "TYPE_SINT32", "TYPE_SINT64"}

StringKinds == {"TYPE_STRING", "TYPE_BYTES"}

ObjectKinds == {"TYPE_ENUM", "TYPE_MESSAGE", "TYPE_GROUP"}

FieldDescriptorProto_Type == NumberKinds \cup StringKinds \cup {"TYPE_BOOL"} \cup ObjectKinds

FieldDescriptorProto_Label == {"LABEL_OPTIONAL", "LABEL_REQUIRED", "LABEL_REPEATED"}

\* a faulty variant: enums taken for numbers
field_type_to_ts_type_enum_number(field) ==
    CASE field.field_type \in NumberKinds \cup {"TYPE_ENUM"} -> Number
      [] field.field_type \in StringKinds -> String
      [] field.field_type = "TYPE_BOOL" -> Boolean
      [] field.field_type \in {"TYPE_MESSAGE", "TYPE_GROUP"} -> Object(field.type_name)

field_type_to_ts_type(field) ==
    CASE field.field_type \in NumberKinds -> Number
      [] field.field_type \in StringKinds -> String
      [] field.field_type = "TYPE_BOOL" -> Boolean
      [] field.field_type \in ObjectKinds -> Object(field.type_name)

----------------------------------------------------------------------------
(* enum TsFieldType, struct TsField and their Display *)

Single(t) == [kind |-> "Single", ts_type |-> t]
Array(t) == [kind |-> "Array", ts_type |-> t]

Display_TsFieldType(ft) ==
    IF ft.kind = "Single"
    THEN <<Display_TsType(ft.ts_type)>>
    ELSE <<"ReadonlyArray<", Display_TsType(ft.ts_type), ">">>

TsField(key, ts_type, is_required) ==
    [key |-> key, ts_type |-> ts_type, is_required |-> is_required]

Display_TsField(fld) ==
    IF fld.is_required
    THEN <<fld.key, ": ">> \o Display_TsFieldType(fld.ts_type) \o <<";\n">>
    ELSE <<fld.key, "?: ">> \o Display_TsFieldType(fld.ts_type) \o <<";\n">>

----------------------------------------------------------------------------
(* impl fmt::Display for TsObjectType *)

\* a faulty variant: the fields compared whole instead of by key
IsLiveSameField(field_i, field_j) == field_i = field_j

\* main.rs:111: the member written in full inside the variant of field_i
IsLive(field_i, field_j) == field_i.key = field_j.key

\* a faulty variant: the forbidden member loses its optional marker
NeverFieldRequired(field_j) == TsField(field_j.key, Single(Never), TRUE)

\* main.rs:117-121: the member written for every other field of the group
NeverField(field_j) == TsField(field_j.key, Single(Never), field_j.is_required)

\* main.rs:110-124: the members of one variant
VariantMembers(oneof, field_i) ==
    Concat([m \in 1..Len(oneof) |->
        <<"      ">> \o Display_TsField(IF IsLive(field_i, oneof[m])
                                        THEN oneof[m]
                                        ELSE NeverField(oneof[m]))])

\* main.rs:108-128: one variant; j is the 0-based index of enumerate()
FmtVariant(oneof, j, oneof_last_index) ==
    <<"    {\n">> \o VariantMembers(oneof, oneof[j + 1]) \o <<"    }">>
        \o (IF j < oneof_last_index THEN <<" |">> ELSE <<>>) \o <<"\n">>

\* a faulty variant: the operator written after every union, the last included
FmtOneofTrailing(oneof_list, i) ==
    LET oneof == oneof_list[i + 1]
        oneof_last_index == WrappingSub1(Len(oneof))
    IN  <<"Readonly<\n">>
            \o Concat([v \in 1..Len(oneof) |-> FmtVariant(oneof, v - 1, oneof_last_index)])
            \o <<"  >">>
            \o <<" & ">>

\* main.rs:105-131: one union; i is the 0-based index of enumerate()
FmtOneof(oneof_list, i) ==
    LET oneof == oneof_list[i + 1]
        oneof_last_index == WrappingSub1(Len(oneof))
    IN  <<"Readonly<\n">>
            \o Concat([v \in 1..Len(oneof) |-> FmtVariant(oneof, v - 1, oneof_last_index)])
            \o <<"  >">>
            \o (IF i < Len(oneof_list) - 1 THEN <<" & ">> ELSE <<>>)

\* main.rs:95-104: the shape of the plain fields
FmtFields(obj) ==
    (IF Len(obj.fields) > 0 THEN <<"Readonly<{\n">> ELSE <<>>)
        \o Concat([k \in 1..Len(obj.fields) |-> <<"  ">> \o Display_TsField(obj.fields[k])])
        \o (IF Len(obj.fields) > 0
            THEN <<"}>">> \o (IF Len(obj.oneof_list) > 0 THEN <<" & ">> ELSE <<>>)
            ELSE <<>>)

\* main.rs:106: `oneof.len() - 1` overflows on an empty group; with overflow
\* checks the subtraction panics, without them it wraps
FmtOverflows(obj) ==
    \E i \in 1..Len(obj.oneof_list) : Len(obj.oneof_list[i]) = 0

Display_TsObjectType(obj) ==
    <<"type ", obj.name, " = ">>
        \o FmtFields(obj)
        \o Concat([g \in 1..Len(obj.oneof_list) |-> FmtOneof(obj.oneof_list, g - 1)])
        \o <<";\n">>

----------------------------------------------------------------------------
(* process_req: the closure run for one message, and gen_resp_file *)

\* main.rs:152-158 and 170-176
LabelToTsFieldType(field) ==
    IF field.label = "LABEL_REPEATED"
    THEN Array(field_type_to_ts_type(field))
    ELSE Single(field_type_to_ts_type(field))

\* main.rs:142-145
EmptyOneofList(message_type) == [g \in 1..Len(message_type.oneof_decl) |-> <<>>]

\* main.rs:150: indexing a Vec is bounds-checked in every build
IndexInBounds(oneof_list, field) == AsUsize(field.oneof_index) < Len(oneof_list)

\* a faulty variant: the member put at the front of its group
PushOneofFieldFront(oneof_list, field) ==
    [oneof_list EXCEPT ![AsUsize(field.oneof_index) + 1] =
        <<TsField(field.json_name, LabelToTsFieldType(field), FALSE)>> \o @]

\* main.rs:150-160
PushOneofField(oneof_list, field) ==
    [oneof_list EXCEPT ![AsUsize(field.oneof_index) + 1] =
        Append(@, TsField(field.json_name, LabelToTsFieldType(field), FALSE))]

\* a faulty variant: a field whose index is out of range is left out
RECURSIVE PushOneofFieldsLenient(_, _)
PushOneofFieldsLenient(oneof_list, fields) ==
    IF fields = <<>> THEN [panicked |-> FALSE, oneof_list |-> oneof_list]
    ELSE IF ~IndexInBounds(oneof_list, Head(fields))
         THEN PushOneofFieldsLenient(oneof_list, Tail(fields))
         ELSE PushOneofFieldsLenient(PushOneofField(oneof_list, Head(fields)), Tail(fields))

\* main.rs:146-161: the for_each over the fields that have a oneof index
RECURSIVE PushOneofFields(_, _)
PushOneofFields(oneof_list, fields) ==
    IF fields = <<>> THEN [panicked |-> FALSE, oneof_list |-> oneof_list]
    ELSE IF ~IndexInBounds(oneof_list, Head(fields))
         THEN [panicked |-> TRUE, oneof_list |-> oneof_list]
         ELSE PushOneofFields(PushOneofField(oneof_list, Head(fields)), Tail(fields))

HasOneofIndex(field) == field.has_oneof_index
HasNoOneofIndex(field) == ~field.has_oneof_index

BuildOneofList(message_type) ==
    PushOneofFields(EmptyOneofList(message_type),
                    SelectSeq(message_type.field, HasOneofIndex))

\* main.rs:167-178
PlainTsField(field) == TsField(field.json_name, LabelToTsFieldType(field), TRUE)

\* main.rs:164-179
BuildFields(message_type) ==
    LET plain == SelectSeq(message_type.field, HasNoOneofIndex)
    IN  [i \in 1..Len(plain) |-> PlainTsField(plain[i])]

\* main.rs:162-181
BuildTsObjectType(message_type) ==
    [name |-> message_type.name,
     fields |-> BuildFields(message_type),
     oneof_list |-> BuildOneofList(message_type).oneof_list]

\* a faulty variant: the content written after what the record before it holds
gen_resp_file_shared_buffer(name, content) ==
    [name |-> name \o ".d.ts",
     content |-> (IF collected = <<>> THEN <<>> ELSE collected[Len(collected)].content)
                    \o content]

\* main.rs:192-197
gen_resp_file(name, content) == [name |-> name \o ".d.ts", content |-> content]

NoObject == [name |-> "", fields |-> <<>>, oneof_list |-> <<>>]

----------------------------------------------------------------------------
(* Inputs *)

Field(json_name, field_type, type_name, label, has_oneof_index, oneof_index) ==
    [json_name |-> json_name, field_type |-> field_type, type_name |-> type_name,
     label |-> label, has_oneof_index |-> has_oneof_index, oneof_index |-> oneof_index]

Message(name, field, n_oneof) ==
    [name |-> name, field |-> field, oneof_decl |-> [g \in 1..n_oneof |-> "oneof"]]

File(message_type) == [message_type |-> message_type]

Request(proto_file) == [proto_file |-> proto_file]

\* the oneof indices a field of the model may carry: none, or 0 .. MaxOneofs - 1
\* (out of range in a message that declares fewer groups)
OneofIndexChoices ==
    {<<FALSE, 0>>} \cup {<<TRUE, g>> : g \in 0..(MaxOneofs - 1)}

\* two fields share the key "a" with different types, one is repeated, and
\* every label occurs
ShapeFields ==
    {Field(b[1], b[2], b[3], b[4], ix[1], ix[2]) :
        b \in {<<"a", "TYPE_INT32", "", "LABEL_OPTIONAL">>,
               <<"a", "TYPE_STRING", "", "LABEL_REQUIRED">>,
               <<"b", "TYPE_MESSAGE", ".Circle", "LABEL_REPEATED">>},
        ix \in OneofIndexChoices}

\* a request of one file that holds one message
OneMessage(m) == Request(<<File(<<m>>)>>)

\* one field of every kind and label, plain or in group 0 or with the index -1
MapperFields ==
    {Field("a", t, tn, l, ix[1], ix[2]) :
        t \in FieldDescriptorProto_Type, tn \in {"", ".Circle"},
        l \in FieldDescriptorProto_Label, ix \in {<<FALSE, 0>>, <<TRUE, 0>>, <<TRUE, -1>>}}


\* The messages of the many-message requests: one without fields and groups,
\* the message Shape (a plain field and a group of two), one with a repeated
\* plain field and a declared group that has no member, and two with a oneof
\* index out of range (one past the last group, and negative).
EmptyMsg == Message("Empty", <<>>, 0)

ShapeMsg ==
    Message("Shape",
            <<Field("id", "TYPE_INT32", "", "LABEL_OPTIONAL", FALSE, 0),
              Field("circle", "TYPE_MESSAGE", "Circle", "LABEL_OPTIONAL", TRUE, 0),
              Field("square", "TYPE_MESSAGE", "Square", "LABEL_OPTIONAL", TRUE, 0)>>,
            1)

TagsMsg == Message("Tags", <<Field("tags", "TYPE_STRING", "", "LABEL_REPEATED", FALSE, 0)>>, 1)

PastMsg == Message("Past", <<Field("x", "TYPE_BOOL", "", "LABEL_OPTIONAL", TRUE, 1)>>, 1)

NegMsg == Message("Neg", <<Field("x", "TYPE_BOOL", "", "LABEL_OPTIONAL", TRUE, -1)>>, 1)

MsgPool == {EmptyMsg, ShapeMsg, TagsMsg, PastMsg, NegMsg}

RECURSIVE Sum(_)
Sum(s) == IF s = <<>> THEN 0 ELSE Head(s) + Sum(Tail(s))

\* the request whose files hold lens[1], lens[2], ... messages of ms, in order
Split(ms, lens) ==
    Request([f \in 1..Len(lens) |->
        File(SubSeq(ms, Sum(SubSeq(lens, 1, f - 1)) + 1, Sum(SubSeq(lens, 1, f))))])

\* every request of at most nFiles files that holds at most nMsgs messages
RequestsUpTo(nFiles, nMsgs) ==
    UNION {{Split(ms, lens) : lens \in {l \in SeqsUpTo(0..nMsgs, nFiles) : Sum(l) = Len(ms)}} :
            ms \in SeqsUpTo(MsgPool, nMsgs)}

----------------------------------------------------------------------------
(* main and the iteration of process_req *)

AtMessage ==
    /\ file_i <= Len(req.proto_file)
    /\ msg_i <= Len(req.proto_file[file_i].message_type)

CurrentMessage == req.proto_file[file_i].message_type[msg_i]

Start(r) ==
    /\ req = r
    /\ pc = "iter"
    /\ panic = ""
    /\ file_i = 1
    /\ msg_i = 1
    /\ ts_object_type = NoObject
    /\ collected = <<>>
    /\ stdout = <<>>

\* The binary is built with or without overflow checks.  The two builds run
\* alike until a subtraction overflows, so the build is left open until then
\* and stays what the first overflow showed it to be.
Init ==
    /\ \E fs \in SeqsUpTo(ShapeFields, MaxFields), n \in 0..MaxOneofs :
            Start(OneMessage(Message("Shape", fs, n)))
    /\ overflow_checks = "any"
    /\ prev = <<>>

InitMapper ==
    /\ \E f \in MapperFields, n \in 0..1 : Start(OneMessage(Message("M", <<f>>, n)))
    /\ overflow_checks = "any"
    /\ prev = <<>>

InitDriver ==
    /\ \E r \in RequestsUpTo(MaxFiles, MaxMsgs) : Start(r)
    /\ overflow_checks = "any"
    /\ prev = <<>>

InitPair ==
    /\ \E m \in MsgPool : Start(OneMessage(m))
    /\ overflow_checks = "any"
    /\ prev = <<>>

\* main.rs:142-181: classify the fields of the next message
Classify ==
    /\ pc = "iter"
    /\ AtMessage
    /\ ~BuildOneofList(CurrentMessage).panicked
    /\ ts_object_type' = BuildTsObjectType(CurrentMessage)
    /\ pc' = "render"
    /\ UNCHANGED <<req, overflow_checks, panic, file_i, msg_i, collected, stdout, prev>>

\* main.rs:150: index out of bounds
ClassifyPanic ==
    /\ pc = "iter"
    /\ AtMessage
    /\ BuildOneofList(CurrentMessage).panicked
    /\ pc' = "panicked"
    /\ panic' = "index out of bounds"
    /\ UNCHANGED <<req, overflow_checks, file_i, msg_i, ts_object_type, collected, stdout, prev>>

\* main.rs:182-185: format the object and make its response file
Render ==
    /\ pc = "render"
    /\ IF FmtOverflows(ts_object_type)
       THEN overflow_checks # "on" /\ overflow_checks' = "off"
       ELSE UNCHANGED overflow_checks
    /\ collected' = Append(collected,
            gen_resp_file(ts_object_type.name, Display_TsObjectType(ts_object_type)))
    /\ msg_i' = msg_i + 1
    /\ pc' = "iter"
    /\ UNCHANGED <<req, panic, file_i, ts_object_type, stdout, prev>>

\* main.rs:106: attempt to subtract with overflow
RenderPanic ==
    /\ pc = "render"
    /\ FmtOverflows(ts_object_type)
    /\ overflow_checks # "off"
    /\ overflow_checks' = "on"
    /\ pc' = "panicked"
    /\ panic' = "attempt to subtract with overflow"
    /\ UNCHANGED <<req, file_i, msg_i, ts_object_type, collected, stdout, prev>>

\* a faulty variant: the first message of the next file is passed over
NextFileSkipping ==
    /\ pc = "iter"
    /\ file_i <= Len(req.proto_file)
    /\ msg_i > Len(req.proto_file[file_i].message_type)
    /\ file_i' = file_i + 1
    /\ msg_i' = 2
    /\ UNCHANGED <<req, overflow_checks, panic, pc, ts_object_type, collected, stdout, prev>>

\* main.rs:140-141, 187: flatten() moves to the next file
NextFile ==
    /\ pc = "iter"
    /\ file_i <= Len(req.proto_file)
    /\ msg_i > Len(req.proto_file[file_i].message_type)
    /\ file_i' = file_i + 1
    /\ msg_i' = 1
    /\ UNCHANGED <<req, overflow_checks, panic, pc, ts_object_type, collected, stdout, prev>>

\* main.rs:139, 187-189: collect() is complete, set_file, Ok(resp)
Return ==
    /\ pc = "iter"
    /\ file_i > Len(req.proto_file)
    /\ pc' = "write"
    /\ UNCHANGED <<req, overflow_checks, panic, file_i, msg_i, ts_object_type, collected, stdout, prev>>

\* main.rs:202: write_to_writer(&mut stdout())
Write ==
    /\ pc = "write"
    /\ stdout' = collected
    /\ pc' = "done"
    /\ UNCHANGED <<req, overflow_checks, panic, file_i, msg_i, ts_object_type, collected, prev>>

\* main.rs:199-203: the same binary is run again, on another request; nothing
\* of the earlier run is left but what it wrote
Reinvoke ==
    /\ pc \in {"done", "panicked"}
    /\ prev = <<>>
    /\ prev' = Append(prev, [req |-> req, stdout |-> stdout, pc |-> pc])
    /\ \E r \in RequestsUpTo(MaxFiles, MaxMsgs - 1) : req' = r
    /\ pc' = "iter"
    /\ panic' = ""
    /\ file_i' = 1
    /\ msg_i' = 1
    /\ ts_object_type' = NoObject
    /\ collected' = <<>>
    /\ stdout' = <<>>
    /\ UNCHANGED overflow_checks

Next == Classify \/ ClassifyPanic \/ Render \/ RenderPanic \/ NextFile \/ Return \/ Write

NextPair == Next \/ Reinvoke

\* one request that holds one message
Spec == Init /\ [][Next]_vars

\* one request that holds one message of one field, of every kind and label
SpecMapper == InitMapper /\ [][Next]_vars

\* one request of several files and messages
SpecDriver == InitDriver /\ [][Next]_vars

\* two invocations, the first on one message and the second on any request
SpecPair == InitPair /\ [][NextPair]_vars

----------------------------------------------------------------------------
(* Reading a rendered declaration back: the member declarations of the     *)
(* plain shape and of every variant of every union, found by the literal   *)
(* pieces that delimit them.                                               *)

\* the positions of piece in t, ascending
Positions(t, piece) == SelectSeq([i \in 1..Len(t) |-> i], LAMBDA i : t[i] = piece)

Between(t, piece, lo, hi) == SelectSeq(Positions(t, piece), LAMBDA i : lo < i /\ i < hi)

\* the first position of piece after position i
NextAfter(t, piece, i) == SelectSeq(Positions(t, piece), LAMBDA k : k > i)[1]

\* the member declaration whose indentation piece is at position i
MemberAt(t, i) ==
    [key |-> t[i + 1],
     optional |-> t[i + 2] = "?: ",
     marker |-> t[i + 2],
     type |-> SubSeq(t, i + 3, NextAfter(t, ";\n", i) - 1)]

MembersBetween(t, indent, lo, hi) ==
    LET at == Between(t, indent, lo, hi)
    IN  [m \in 1..Len(at) |-> MemberAt(t, at[m])]

HasPlainShape(t) == Positions(t, "Readonly<{\n") # <<>>

PlainMembers(t) ==
    IF HasPlainShape(t)
    THEN MembersBetween(t, "  ", Positions(t, "Readonly<{\n")[1], Positions(t, "}>")[1])
    ELSE <<>>

NumUnions(t) == Len(Positions(t, "Readonly<\n"))

UnionLo(t, g) == Positions(t, "Readonly<\n")[g]
UnionHi(t, g) == Positions(t, "  >")[g]

NumVariants(t, g) == Len(Between(t, "    {\n", UnionLo(t, g), UnionHi(t, g)))

VariantLo(t, g, v) == Between(t, "    {\n", UnionLo(t, g), UnionHi(t, g))[v]

VariantMembersOf(t, g, v) ==
    LET lo == VariantLo(t, g, v)
    IN  MembersBetween(t, "      ", lo, NextAfter(t, "    }", lo))

IsOutlinePiece(x) == x \in {"Readonly<{\n", "}>", "Readonly<\n", "  >", " & "}

\* the declaration without its header, its member declarations and variants
Outline(t) == SelectSeq(SubSeq(t, 4, Len(t) - 1), IsOutlinePiece)

----------------------------------------------------------------------------
(* What the descriptors say, read from the request alone *)

AllMessages(r) == Concat([f \in 1..Len(r.proto_file) |-> r.proto_file[f].message_type])

PlainOf(m) == SelectSeq(m.field, LAMBDA f : ~f.has_oneof_index)

\* the fields of m assigned to its g-th group (g counts from 1)
GroupOf(m, g) == SelectSeq(m.field, LAMBDA f : f.has_oneof_index /\ f.oneof_index = g - 1)

NumGroups(m) == Len(m.oneof_decl)

InRange(m, f) == f.has_oneof_index => (0 <= f.oneof_index /\ f.oneof_index < NumGroups(m))

WellFormed(m) == \A k \in 1..Len(m.field) : InRange(m, m.field[k])

Malformed(r) == \E k \in 1..Len(AllMessages(r)) : ~WellFormed(AllMessages(r)[k])

\* the mapping table of the type mapper, kind by kind
TableType(f) ==
    CASE f.field_type \in {"TYPE_DOUBLE", "TYPE_FLOAT"} -> "number"
      [] f.field_type \in {"TYPE_INT32", "TYPE_INT64", "TYPE_UINT32", "TYPE_UINT64",
                           "TYPE_SINT32", "TYPE_SINT64", "TYPE_FIXED32", "TYPE_FIXED64",
                           "TYPE_SFIXED32", "TYPE_SFIXED64"} -> "number"
      [] f.field_type = "TYPE_STRING" -> "string"
      [] f.field_type = "TYPE_BYTES" -> "string"
      [] f.field_type = "TYPE_BOOL" -> "boolean"
      [] f.field_type \in {"TYPE_ENUM", "TYPE_MESSAGE", "TYPE_GROUP"} -> f.type_name

TableFieldType(f) ==
    IF f.label = "LABEL_REPEATED"
    THEN <<"ReadonlyArray<", TableType(f), ">">>
    ELSE <<TableType(f)>>

\* the k-th record written is the one of the k-th message of the request
MessageOf(k) == AllMessages(req)[k]
DeclOf(k) == stdout[k].content

----------------------------------------------------------------------------
(* Claims about one rendered message *)

GroupsOf(k) == 1..NumGroups(MessageOf(k))

\* C1: for every rendered message and every oneof group with k >= 1 members,
\* the union of the group has exactly k variants, every variant has exactly
\* k member declarations in member order, and in variant i exactly the i-th
\* member carries its mapped type while the other k - 1 carry `never`.
C1_MutualExclusion ==
    \A k \in DOMAIN stdout : \A g \in GroupsOf(k) :
        LET members == GroupOf(MessageOf(k), g)
            n == Len(members)
        IN  n >= 1 =>
            /\ NumVariants(DeclOf(k), g) = n
            /\ \A i \in 1..n :
                LET vm == VariantMembersOf(DeclOf(k), g, i)
                IN  /\ Len(vm) = n
                    /\ \A j \in 1..n :
                        /\ vm[j].key = members[j].json_name
                        /\ vm[j].type = IF j = i THEN TableFieldType(members[j])
                                                 ELSE <<"never">>

\* C10: inside the variant of member i, member j carries its own mapped type
\* exactly when key(j) = key(i), and an unwrapped `never` otherwise, also
\* when it is repeated; so variant i has exactly one live member exactly
\* when no other member of the group has the key of member i.
C10_LiveByKey ==
    \A k \in DOMAIN stdout : \A g \in GroupsOf(k) :
        LET members == GroupOf(MessageOf(k), g)
            n == Len(members)
        IN  /\ NumVariants(DeclOf(k), g) = n
            /\ \A i \in 1..n :
                LET vm == VariantMembersOf(DeclOf(k), g, i)
                    live == {j \in 1..n : vm[j].type # <<"never">>}
                IN  /\ Len(vm) = n
                    /\ \A j \in 1..n :
                        vm[j].type = IF members[j].json_name = members[i].json_name
                                     THEN TableFieldType(members[j])
                                     ELSE <<"never">>
                    /\ (Cardinality(live) = 1) <=>
                            (\A j \in 1..n : j # i =>
                                members[j].json_name # members[i].json_name)

\* a group with two members of one key, both live in one variant, and a
\* repeated member of another key rendered `never` there
C10_Witness ==
    \E k \in DOMAIN stdout : \E g \in GroupsOf(k) :
        LET members == GroupOf(MessageOf(k), g)
            vm == VariantMembersOf(DeclOf(k), g, 1)
        IN  /\ Len(members) = 3
            /\ members[1].json_name = members[2].json_name
            /\ members[1] # members[2]
            /\ vm[1].type # <<"never">> /\ vm[2].type # <<"never">>
            /\ members[3].label = "LABEL_REPEATED"
            /\ vm[3].type = <<"never">>

\* C6: every plain field is rendered `key: Type` whatever its label, every
\* member declaration inside a variant is rendered `key?: ...`, and a
\* declaration holds no other member declaration.
C6_Optionality ==
    \A k \in DOMAIN stdout :
        LET m == MessageOf(k)
            t == DeclOf(k)
            pm == PlainMembers(t)
        IN  /\ Len(pm) = Len(PlainOf(m))
            /\ \A j \in 1..Len(pm) :
                /\ pm[j].key = PlainOf(m)[j].json_name
                /\ pm[j].marker = ": "
            /\ \A g \in GroupsOf(k) : \A i \in 1..NumVariants(t, g) :
                LET vm == VariantMembersOf(t, g, i)
                IN  /\ Len(vm) = Len(GroupOf(m, g))
                    /\ \A j \in 1..Len(vm) : vm[j].marker = "?: "
            /\ Len(Positions(t, ": ")) = Len(PlainOf(m))
            /\ Len(Positions(t, "?: ")) =
                    Cardinality({x \in GroupsOf(k) \X (1..Len(m.field)) \X (1..Len(m.field)) :
                        x[2] <= Len(GroupOf(m, x[1])) /\ x[3] <= Len(GroupOf(m, x[1]))})

\* plain fields of two different labels beside a group of two members
C6_Witness ==
    \E k \in DOMAIN stdout :
        LET m == MessageOf(k)
        IN  /\ Len(PlainOf(m)) = 1
            /\ PlainOf(m)[1].label = "LABEL_OPTIONAL"
            /\ \E g \in GroupsOf(k) :
                /\ Len(GroupOf(m, g)) = 2
                /\ VariantMembersOf(DeclOf(k), g, 1)[2].type = <<"never">>
                /\ VariantMembersOf(DeclOf(k), g, 1)[2].optional

\* the components a declaration of m is to have, joined by the operator
ExpectedOutline(m) ==
    LET comps == (IF Len(PlainOf(m)) > 0 THEN << <<"Readonly<{\n", "}>">> >> ELSE <<>>)
                    \o [g \in 1..NumGroups(m) |-> <<"Readonly<\n", "  >">>]
    IN  Concat([c \in 1..Len(comps) |->
            comps[c] \o (IF c < Len(comps) THEN <<" & ">> ELSE <<>>)])

NumComponents(m) == (IF Len(PlainOf(m)) > 0 THEN 1 ELSE 0) + NumGroups(m)

\* C8: a declaration is `type <name> = <components>;`, the components being
\* the plain shape (present exactly when there is a plain field) and then one
\* union per group in index order, joined by single intersection operators:
\* c >= 1 components hold c - 1 operators, none leading or trailing, and a
\* message without plain fields and groups renders no component.
C8_Intersection ==
    \A k \in DOMAIN stdout :
        LET m == MessageOf(k)
            t == DeclOf(k)
        IN  /\ SubSeq(t, 1, 3) = <<"type ", m.name, " = ">>
            /\ t[Len(t)] = ";\n"
            /\ Outline(t) = ExpectedOutline(m)
            /\ HasPlainShape(t) <=> Len(PlainOf(m)) > 0
            /\ NumUnions(t) = NumGroups(m)
            /\ \A g \in GroupsOf(k) : NumVariants(t, g) = Len(GroupOf(m, g))
            /\ NumComponents(m) >= 1 =>
                    Len(Positions(t, " & ")) = NumComponents(m) - 1
            /\ NumComponents(m) = 0 => t = <<"type ", m.name, " = ", ";\n">>

\* a plain shape and two unions: three components, two operators
C8_Witness ==
    \E k \in DOMAIN stdout :
        /\ Len(PlainOf(MessageOf(k))) = 1
        /\ NumGroups(MessageOf(k)) = 2
        /\ Len(GroupOf(MessageOf(k), 1)) = 1
        /\ Len(GroupOf(MessageOf(k), 2)) = 1
        /\ Len(Positions(DeclOf(k), " & ")) = 2

\* a field, and a TsField, as the key and the rendered type
Tag(f) == <<f.json_name, TableFieldType(f)>>
Proj(tsf) == <<tsf.key, Display_TsFieldType(tsf.ts_type)>>
Tags(fs) == [i \in 1..Len(fs) |-> Tag(fs[i])]
Projs(tsfs) == [i \in 1..Len(tsfs) |-> Proj(tsfs[i])]
Count(s, x) == Cardinality({i \in 1..Len(s) : s[i] = x})

\* C2: once a message whose oneof indices are all in range is classified, the
\* plain list and the group lists together hold every field of the message
\* exactly once: a field with index g is in group g, a field without one is
\* in the plain list, and every bucket keeps the input order.
C2_ClassifierPartition ==
    /\ pc = "render" =>
        LET m == CurrentMessage
            o == ts_object_type
            buckets == <<Projs(o.fields)>> \o [g \in 1..Len(o.oneof_list) |-> Projs(o.oneof_list[g])]
        IN  /\ WellFormed(m)
            /\ Len(o.oneof_list) = NumGroups(m)
            /\ Projs(o.fields) = Tags(PlainOf(m))
            /\ \A g \in 1..NumGroups(m) : Projs(o.oneof_list[g]) = Tags(GroupOf(m, g))
            /\ \A i \in 1..Len(o.fields) : o.fields[i].is_required
            /\ \A g \in 1..NumGroups(m) : \A i \in 1..Len(o.oneof_list[g]) :
                    ~o.oneof_list[g][i].is_required
            /\ Len(Concat(buckets)) = Len(m.field)
            /\ \A i \in 1..Len(m.field) :
                    Count(Concat(buckets), Tag(m.field[i])) = Count(Tags(m.field), Tag(m.field[i]))
    /\ panic = "index out of bounds" => ~WellFormed(CurrentMessage)

\* fields of two groups and a plain field, interleaved in the input
C2_Witness ==
    /\ pc = "render"
    /\ Len(CurrentMessage.field) = 3
    /\ CurrentMessage.field[1].has_oneof_index /\ CurrentMessage.field[1].oneof_index = 1
    /\ ~CurrentMessage.field[2].has_oneof_index
    /\ CurrentMessage.field[3].has_oneof_index /\ CurrentMessage.field[3].oneof_index = 1
    /\ CurrentMessage.field[1] # CurrentMessage.field[3]
    /\ Len(ts_object_type.oneof_list[2]) = 2

\* C3: a message that declares a group to which no field is assigned renders
\* without failure, and the group's union is there with zero variants.
C3_EmptyGroupRenders ==
    /\ panic # "attempt to subtract with overflow"
    /\ \A k \in DOMAIN stdout : \A g \in GroupsOf(k) :
        Len(GroupOf(MessageOf(k), g)) = 0 =>
            /\ NumUnions(DeclOf(k)) = NumGroups(MessageOf(k))
            /\ NumVariants(DeclOf(k), g) = 0

\* C7: the mapper has a type for every kind and never fails, and a field's
\* rendered type is the table's type, wrapped in ReadonlyArray<...> exactly
\* when the field is repeated, for plain fields and oneof members alike.
C7_TypeMapping ==
    /\ \A k \in DOMAIN stdout :
        LET m == MessageOf(k)
            t == DeclOf(k)
        IN  /\ \A j \in 1..Len(PlainOf(m)) :
                PlainMembers(t)[j].type = TableFieldType(PlainOf(m)[j])
            /\ \A g \in GroupsOf(k) : \A i \in 1..Len(GroupOf(m, g)) :
                VariantMembersOf(t, g, i)[i].type = TableFieldType(GroupOf(m, g)[i])
    /\ pc = "panicked" =>
        \/ panic = "index out of bounds" /\ ~WellFormed(CurrentMessage)
        \/ /\ panic = "attempt to subtract with overflow"
           /\ overflow_checks = "on"
           /\ \E g \in 1..NumGroups(CurrentMessage) : Len(GroupOf(CurrentMessage, g)) = 0

\* a repeated enum member of a oneof group, rendered as an array of its name
C7_Witness ==
    \E k \in DOMAIN stdout :
        /\ Len(GroupOf(MessageOf(k), 1)) = 1
        /\ GroupOf(MessageOf(k), 1)[1].field_type = "TYPE_ENUM"
        /\ GroupOf(MessageOf(k), 1)[1].label = "LABEL_REPEATED"
        /\ VariantMembersOf(DeclOf(k), 1, 1)[1].type = <<"ReadonlyArray<", ".Circle", ">">>

----------------------------------------------------------------------------
(* Claims about whole requests *)

\* C4: the response holds exactly one record per message of every file, in
\* the order of the files and of the messages in them, none skipped (a
\* message without fields and groups included); the record of a message is
\* named by its name and ".d.ts" and holds its rendered declaration.
C4_DriverComplete ==
    /\ Len(collected) <= Len(AllMessages(req))
    /\ \A k \in DOMAIN collected :
        /\ collected[k].name = MessageOf(k).name \o ".d.ts"
        /\ SubSeq(collected[k].content, 1, 3) = <<"type ", MessageOf(k).name, " = ">>
        /\ collected[k].content = Display_TsObjectType(BuildTsObjectType(MessageOf(k)))
    /\ pc \in {"write", "done"} => Len(collected) = Len(AllMessages(req))
    /\ pc = "done" => stdout = collected
    /\ pc # "done" => stdout = <<>>

\* two files, the first of two messages, one of them without fields and groups
C4_Witness ==
    /\ pc = "done"
    /\ Len(req.proto_file) = 2
    /\ Len(req.proto_file[1].message_type) = 2
    /\ Len(req.proto_file[2].message_type) = 1
    /\ req.proto_file[1].message_type[2] = EmptyMsg
    /\ req.proto_file[2].message_type[1] = ShapeMsg
    /\ req.proto_file[1].message_type[1] # EmptyMsg
    /\ Len(stdout) = 3
    /\ Text(stdout[2].content) = "type Empty = ;\n"
    /\ stdout[3].name = "Shape.d.ts"

\* the first message of the request with a oneof index out of range
FirstMalformed(r) ==
    CHOOSE k \in 1..Len(AllMessages(r)) :
        /\ ~WellFormed(AllMessages(r)[k])
        /\ \A h \in 1..(k - 1) : WellFormed(AllMessages(r)[h])

\* C5: when a field of any message of the request has a oneof index outside
\* the groups its message declares, the request fails: nothing is written,
\* not even the records of the messages before it, and the message is never
\* rendered (its index is not clamped, ignored or put in another group).
C5_MalformedIsFatal ==
    Malformed(req) =>
        /\ stdout = <<>>
        /\ pc \notin {"write", "done"}
        /\ Len(collected) < FirstMalformed(req)

\* a record was made for a message before the malformed one, and none written
C5_Witness ==
    /\ Malformed(req)
    /\ pc = "panicked"
    /\ panic = "index out of bounds"
    /\ Len(collected) = 2
    /\ CurrentMessage = NegMsg
    /\ stdout = <<>>

\* C9: the record of a message depends on its own descriptor only: the same
\* descriptor gives a record of the same name and the same bytes wherever it
\* stands in a request, whatever else the request holds, and in every run.
C9_Independence ==
    /\ \A i \in DOMAIN stdout : \A j \in DOMAIN stdout :
        MessageOf(i) = MessageOf(j) =>
            /\ stdout[i].name = stdout[j].name
            /\ Text(stdout[i].content) = Text(stdout[j].content)
    /\ \A p \in DOMAIN prev : \A i \in DOMAIN prev[p].stdout : \A j \in DOMAIN stdout :
        AllMessages(prev[p].req)[i] = MessageOf(j) =>
            /\ prev[p].stdout[i].name = stdout[j].name
            /\ Text(prev[p].stdout[i].content) = Text(stdout[j].content)

\* Shape alone in the first run; in the second run after another message and
\* again in a second file
C9_Witness ==
    /\ Len(prev) = 1
    /\ prev[1].req = OneMessage(ShapeMsg)
    /\ Len(prev[1].stdout) = 1
    /\ pc = "done"
    /\ Len(stdout) = 2
    /\ Len(req.proto_file) = 2
    /\ req.proto_file[1].message_type = <<EmptyMsg>>
    /\ req.proto_file[2].message_type = <<ShapeMsg>>

====
